---- MODULE Spec2Model ----
(***************************************************************************)
(* A model of JSONValue.cpp: the recursive-descent JSONParser, the         *)
(* serializer serializeJSON, and the tree operations queryJSON,            *)
(* flattenJSON, unflattenJSON and areEqual.                                *)
(*                                                                         *)
(* Text is a sequence of character codes (the bytes of a std::string).     *)
(* position is the 0-based cursor of the source: input[position] of the    *)
(* source is input[position + 1] here.                                     *)
(***************************************************************************)
EXTENDS Integers, Sequences, FiniteSets, TLC

VARIABLES
    input,      \* JSONParser::input
    position,   \* JSONParser::position
    stack,      \* the parser's call stack, innermost call first
    ret,        \* the JSONValue the last finished call returned
    status,     \* "ready" | "parsing" | "ok" | "failed" (an exception left parse())
    err,        \* which throw ended the parse
    kind,       \* how the input text was chosen
    expect,     \* the value the input text was written from (when it was)
    root,       \* the tree the tree operations work on
    path,       \* queryJSON's path
    qres,       \* queryJSON's outcome
    flattened,  \* the map flattenJSON fills
    pending,    \* the entries of flattened that unflattenJSON has yet to visit
    result,     \* unflattenJSON's result
    tpc         \* where the tree-operation run stands

vars == <<input, position, stack, ret, status, err, kind, expect,
          root, path, qres, flattened, pending, result, tpc>>

parserVars == <<input, position, stack, ret, status, err, kind, expect>>
treeVars == <<root, path, qres, flattened, pending, result, tpc>>

----------------------------------------------------------------------------
(* Bounds of the model. *)

\* longest raw input text
MaxLen == 4
\* most elements (members) of a generated array (object)
MaxElems == 2
\* most escape tokens in a generated string literal
MaxTokens == 2
\* most segments of a generated path
MaxSegs == 2

----------------------------------------------------------------------------
(* Characters. *)

Code ==
    [c \in {"{", "}", "[", "]", "\"", ":", ",", " ", "\\", "/", ".", "-", "+",
            "0", "1", "2", "3", "4", "5", "6", "7", "8", "9",
            "a", "b", "c", "d", "e", "f", "k", "l", "n", "q", "r", "s", "t", "u", "x",
            "A", "B", "C", "D", "E", "F",
            "TAB", "LF", "VT", "FF", "CR", "BS"} |->
        CASE c = "TAB" -> 9   [] c = "LF" -> 10  [] c = "VT" -> 11
          [] c = "FF" -> 12   [] c = "CR" -> 13  [] c = "BS" -> 8
          [] c = " " -> 32    [] c = "\"" -> 34  [] c = "+" -> 43
          [] c = "," -> 44    [] c = "-" -> 45   [] c = "." -> 46
          [] c = "/" -> 47
          [] c = "0" -> 48    [] c = "1" -> 49   [] c = "2" -> 50
          [] c = "3" -> 51    [] c = "4" -> 52   [] c = "5" -> 53
          [] c = "6" -> 54    [] c = "7" -> 55   [] c = "8" -> 56
          [] c = "9" -> 57    [] c = ":" -> 58
          [] c = "A" -> 65    [] c = "B" -> 66   [] c = "C" -> 67
          [] c = "D" -> 68    [] c = "E" -> 69   [] c = "F" -> 70
          [] c = "[" -> 91    [] c = "\\" -> 92  [] c = "]" -> 93
          [] c = "a" -> 97    [] c = "b" -> 98   [] c = "c" -> 99
          [] c = "d" -> 100   [] c = "e" -> 101  [] c = "f" -> 102
          [] c = "k" -> 107   [] c = "l" -> 108  [] c = "n" -> 110
          [] c = "q" -> 113   [] c = "r" -> 114
          [] c = "s" -> 115   [] c = "t" -> 116  [] c = "u" -> 117
          [] c = "x" -> 120
          [] c = "{" -> 123   [] c = "}" -> 125]

\* the text whose characters are named by the one-character strings of s
T(s) == [i \in 1..Len(s) |-> Code[s[i]]]

\* std::isspace, std::isdigit and std::isxdigit in the "C" locale
IsSpace(c) == c = 32 \/ (c >= 9 /\ c <= 13)
IsDigit(c) == c >= 48 /\ c <= 57
IsXDigit(c) == IsDigit(c) \/ (c >= 97 /\ c <= 102) \/ (c >= 65 /\ c <= 70)

\* the value of a hexadecimal digit (std::stoul, base 16)
HexVal(c) == IF IsDigit(c) THEN c - 48 ELSE IF c >= 97 THEN c - 87 ELSE c - 55

----------------------------------------------------------------------------
(* Numbers. A double is modelled by the decimal it was read from:          *)
(* sgn * m * 10^x, with m not divisible by 10 (and x = 0 when m = 0), so   *)
(* that two texts denote equal doubles exactly when the records agree      *)
(* (up to the sign of zero). This is exact for the short digit strings     *)
(* the bounds allow (fewer than 15 significant digits).                    *)

RECURSIVE Pow10(_)
Pow10(n) == IF n = 0 THEN 1 ELSE 10 * Pow10(n - 1)

RECURSIVE Normalize(_, _, _)
Normalize(sgn, m, x) ==
    IF m = 0 THEN [sgn |-> sgn, m |-> 0, x |-> 0]
    ELSE IF m % 10 = 0 THEN Normalize(sgn, m \div 10, x + 1)
    ELSE [sgn |-> sgn, m |-> m, x |-> x]

\* operator== of two doubles: -0.0 == 0.0
DoubleEq(a, b) == a.m = b.m /\ a.x = b.x /\ (a.m = 0 \/ a.sgn = b.sgn)

\* the double of an int
DoubleOf(n) == IF n < 0 THEN Normalize(-1, -n, 0) ELSE Normalize(1, n, 0)

----------------------------------------------------------------------------
(* JSONValue: one struct holding every payload field at once. A field the  *)
(* constructor used does not initialise (numberValue, boolValue) holds     *)
(* Indeterminate; no operation below reads it.                             *)

Indeterminate == "indeterminate"
NoMap == <<>>   \* an empty unordered_map (and an empty vector)

NullValue ==
    [type |-> "NULLVALUE", stringValue |-> <<>>, numberValue |-> Indeterminate,
     boolValue |-> Indeterminate, objectValue |-> NoMap, arrayValue |-> <<>>]
StringValue(s) == [NullValue EXCEPT !.type = "STRING", !.stringValue = s]
NumberValue(d) == [NullValue EXCEPT !.type = "NUMBER", !.numberValue = d]
BoolValue(b) == [NullValue EXCEPT !.type = "BOOLEAN", !.boolValue = b]
TypedValue(t) == [NullValue EXCEPT !.type = t]

\* MapPut as insert-if-absent (emplace) would do it: the first value stays
MapPutKeepFirst(m, k, v) ==
    [x \in (DOMAIN m) \cup {k} |-> IF x \in DOMAIN m THEN m[x] ELSE v]

\* objectValue[key] = value on an unordered_map
MapPut(m, k, v) == [x \in (DOMAIN m) \cup {k} |-> IF x = k THEN v ELSE m[x]]

----------------------------------------------------------------------------
(* The parser's primitives and its leaf functions. Each leaf function is   *)
(* an operator from the cursor it starts at to its outcome:                *)
(* [ok, pos, val, err], pos being the cursor it leaves behind (on a throw, *)
(* the cursor at the throw).                                               *)

Size == Len(input)

\* input[pos]; std::string's operator[] yields '\0' at pos == size()
PeekAt(pos) == IF pos < Size THEN input[pos + 1] ELSE 0
peek == PeekAt(position)

RECURSIVE SkipWhitespaceFrom(_)
SkipWhitespaceFrom(pos) ==
    IF pos < Size /\ IsSpace(input[pos + 1]) THEN SkipWhitespaceFrom(pos + 1) ELSE pos

Ok(pos, val) == [ok |-> TRUE, pos |-> pos, val |-> val, err |-> "none"]
Throw(pos, e) == [ok |-> FALSE, pos |-> pos, val |-> NullValue, err |-> e]

\* consume() with its bound test off by one (position > input.size())
consumeAtOffByOne(pos) ==
    IF pos > Size THEN Throw(pos, "UnexpectedEnd") ELSE Ok(pos + 1, PeekAt(pos))

\* consume(): the character read and the cursor after it, or the throw
consumeAt(pos) ==
    IF pos >= Size THEN Throw(pos, "UnexpectedEnd") ELSE Ok(pos + 1, input[pos + 1])

\* input.compare(pos, n, word) == 0, for n = word.size()
CompareAt(pos, word) ==
    SubSeq(input, pos + 1, IF pos + Len(word) <= Size THEN pos + Len(word) ELSE Size) = word

\* the UTF-8 bytes parseUnicodeEscape builds for a code point (as unsigned bytes)
Utf8(codePoint) ==
    IF codePoint <= 127 THEN <<codePoint>>
    ELSE IF codePoint <= 2047
        THEN <<192 + ((codePoint \div 64) % 32), 128 + (codePoint % 64)>>
    ELSE IF codePoint <= 65535
        THEN <<224 + ((codePoint \div 4096) % 16),
               128 + ((codePoint \div 64) % 64),
               128 + (codePoint % 64)>>
    ELSE <<240 + ((codePoint \div 262144) % 8),
           128 + ((codePoint \div 4096) % 64),
           128 + ((codePoint \div 64) % 64),
           128 + (codePoint % 64)>>

\* the loop of parseUnicodeEscape: i digits read so far, their value acc
RECURSIVE UnicodeDigits(_, _, _)
UnicodeDigits(pos, i, acc) ==
    IF i = 4 THEN Ok(pos, Utf8(acc))
    ELSE LET c == consumeAt(pos) IN
         IF ~c.ok THEN c
         ELSE IF ~IsXDigit(c.val) THEN Throw(c.pos, "InvalidUnicodeEscape")
         ELSE UnicodeDigits(c.pos, i + 1, acc * 16 + HexVal(c.val))

parseUnicodeEscapeAt(pos) == UnicodeDigits(pos, 0, 0)

\* the loop of parseString: res is the string decoded so far
RECURSIVE StringLoop(_, _)
StringLoop(pos, res) ==
    IF PeekAt(pos) = Code["\""] THEN Ok(pos + 1, StringValue(res))
    ELSE LET current == consumeAt(pos) IN
         IF ~current.ok THEN current
         ELSE IF current.val # Code["\\"]
             THEN StringLoop(current.pos, Append(res, current.val))
         ELSE LET escaped == consumeAt(current.pos) IN
              IF ~escaped.ok THEN escaped
              ELSE IF escaped.val = Code["\""] THEN StringLoop(escaped.pos, Append(res, Code["\""]))
              ELSE IF escaped.val = Code["\\"] THEN StringLoop(escaped.pos, Append(res, Code["\\"]))
              ELSE IF escaped.val = Code["/"] THEN StringLoop(escaped.pos, Append(res, Code["/"]))
              ELSE IF escaped.val = Code["b"] THEN StringLoop(escaped.pos, Append(res, Code["BS"]))
              ELSE IF escaped.val = Code["f"] THEN StringLoop(escaped.pos, Append(res, Code["FF"]))
              ELSE IF escaped.val = Code["n"] THEN StringLoop(escaped.pos, Append(res, Code["LF"]))
              ELSE IF escaped.val = Code["r"] THEN StringLoop(escaped.pos, Append(res, Code["CR"]))
              ELSE IF escaped.val = Code["t"] THEN StringLoop(escaped.pos, Append(res, Code["TAB"]))
              ELSE IF escaped.val = Code["u"]
                  THEN LET unicode == parseUnicodeEscapeAt(escaped.pos) IN
                       IF ~unicode.ok THEN unicode
                       ELSE StringLoop(unicode.pos,
                                       res \o <<Code["\\"], Code["u"]>> \o unicode.val)
              ELSE Throw(escaped.pos, "InvalidEscape")

\* parseString: the first consumeAt() takes whatever character is there
parseStringAt(pos) ==
    LET open == consumeAt(pos) IN
    IF ~open.ok THEN open ELSE StringLoop(open.pos, <<>>)

\* the first index >= i of s that holds no digit
RECURSIVE DigitsEnd(_, _)
DigitsEnd(s, i) == IF i <= Len(s) /\ IsDigit(s[i]) THEN DigitsEnd(s, i + 1) ELSE i

\* the number written by the digits s[i..j-1]
RECURSIVE DigitsVal(_, _, _)
DigitsVal(s, i, j) == IF j <= i THEN 0 ELSE DigitsVal(s, i, j - 1) * 10 + (s[j - 1] - 48)

RECURSIVE SpacesEnd(_, _)
SpacesEnd(s, i) == IF i <= Len(s) /\ IsSpace(s[i]) THEN SpacesEnd(s, i + 1) ELSE i

\* std::stod(s): the longest prefix of s that is a decimal floating-point
\* literal, [ok |-> FALSE] (std::invalid_argument) when there is none. The
\* hexadecimal, "inf" and "nan" forms need letters parseNumber never scans.
Stod(s) ==
    LET w == SpacesEnd(s, 1)
        hasSign == w <= Len(s) /\ s[w] \in {Code["+"], Code["-"]}
        sgn == IF hasSign /\ s[w] = Code["-"] THEN -1 ELSE 1
        a == IF hasSign THEN w + 1 ELSE w
        b == DigitsEnd(s, a)
        hasDot == b <= Len(s) /\ s[b] = Code["."]
        c == IF hasDot THEN DigitsEnd(s, b + 1) ELSE b
        nInt == b - a
        nFrac == IF hasDot THEN c - (b + 1) ELSE 0
        mant == DigitsVal(s, a, b) * Pow10(nFrac)
                    + (IF hasDot THEN DigitsVal(s, b + 1, c) ELSE 0)
        hasE == c <= Len(s) /\ s[c] \in {Code["e"], Code["E"]}
        eSign == hasE /\ c + 1 <= Len(s) /\ s[c + 1] \in {Code["+"], Code["-"]}
        d0 == IF eSign THEN c + 2 ELSE c + 1
        d1 == DigitsEnd(s, d0)
        hasExp == hasE /\ d1 > d0
        ex == IF ~hasExp THEN 0
              ELSE IF eSign /\ s[c + 1] = Code["-"] THEN 0 - DigitsVal(s, d0, d1)
              ELSE DigitsVal(s, d0, d1)
    IN  IF nInt + nFrac = 0 THEN [ok |-> FALSE, val |-> Normalize(1, 0, 0)]
        ELSE [ok |-> TRUE, val |-> Normalize(sgn, mant, ex - nFrac)]

\* the characters parseNumber's loop accepts
IsNumberChar(c) == IsDigit(c) \/ c = Code["."] \/ c = Code["-"] \/ c = Code["+"]

RECURSIVE ScanNumber(_)
ScanNumber(pos) ==
    IF pos < Size /\ IsNumberChar(PeekAt(pos)) THEN ScanNumber(pos + 1) ELSE pos

parseNumberAt(pos) ==
    LET end == ScanNumber(pos)
        value == Stod(SubSeq(input, pos + 1, end))
    IN  IF value.ok THEN Ok(end, NumberValue(value.val))
        ELSE Throw(end, "StodInvalidArgument")

parseLiteralAt(pos, literal, value) ==
    IF ~CompareAt(pos, literal) THEN Throw(pos, "InvalidLiteral")
    ELSE Ok(pos + Len(literal), value)

----------------------------------------------------------------------------
(* The parser as a machine. A frame is a call in progress: the function,   *)
(* the place in it where it resumes, and its locals (acc: the object or    *)
(* array being built, or the value a literal stands for; key: the member   *)
(* key just read, or the literal's word).                                  *)

Frame(fn, pc, acc, key) == [fn |-> fn, pc |-> pc, acc |-> acc, key |-> key]
Call(fn) == Frame(fn, "entry", NullValue, <<>>)

Top == Head(stack)
At(fn, pc) == status = "parsing" /\ stack # <<>> /\ Top.fn = fn /\ Top.pc = pc

\* a throw: no function of the parser catches, so the exception leaves parse()
Raise(pos, e) ==
    /\ position' = pos
    /\ status' = "failed"
    /\ err' = e
    /\ stack' = <<>>
    /\ UNCHANGED <<input, ret, kind, expect>>

\* return v to the caller
Return(pos, v) ==
    /\ position' = pos
    /\ ret' = v
    /\ stack' = Tail(stack)
    /\ UNCHANGED <<input, status, err, kind, expect>>

\* go on with the current call replaced by frames (innermost first)
Goto(pos, frames) ==
    /\ position' = pos
    /\ stack' = frames \o Tail(stack)
    /\ UNCHANGED <<input, ret, status, err, kind, expect>>

\* the outcome r of a leaf function, returned or thrown
Finish(r) == IF r.ok THEN Return(r.pos, r.val) ELSE Raise(r.pos, r.err)

\* parse(), up to its call of parseValue
parse ==
    /\ status = "ready"
    /\ position' = SkipWhitespaceFrom(position)
    /\ stack' = <<Call("parseValue"), Frame("parse", "afterValue", NullValue, <<>>)>>
    /\ status' = "parsing"
    /\ UNCHANGED <<input, ret, err, kind, expect>>
    /\ UNCHANGED treeVars

\* parse() without its test for the end of the input
parseReturnUnchecked ==
    /\ At("parse", "afterValue")
    /\ position' = SkipWhitespaceFrom(position)
    /\ status' = "ok"
    /\ stack' = <<>>
    /\ UNCHANGED <<input, ret, err, kind, expect>>
    /\ UNCHANGED treeVars

\* parse(), from the return of parseValue
parseReturn ==
    /\ At("parse", "afterValue")
    /\ LET p == SkipWhitespaceFrom(position) IN
       IF p # Size THEN Raise(p, "TrailingData")
       ELSE /\ position' = p
            /\ status' = "ok"
            /\ stack' = <<>>
            /\ UNCHANGED <<input, ret, err, kind, expect>>
    /\ UNCHANGED treeVars

\* parseValue(): each branch returns what the function it calls returns
parseValue ==
    /\ At("parseValue", "entry")
    /\ LET p == SkipWhitespaceFrom(position)
           current == PeekAt(p)
       IN  IF current = Code["{"] THEN Goto(p, <<Call("parseObject")>>)
           ELSE IF current = Code["["] THEN Goto(p, <<Call("parseArray")>>)
           ELSE IF current = Code["\""] THEN Goto(p, <<Call("parseString")>>)
           ELSE IF IsDigit(current) \/ current = Code["-"]
               THEN Goto(p, <<Call("parseNumber")>>)
           ELSE IF CompareAt(p, T(<<"t", "r", "u", "e">>))
               THEN Goto(p, <<Frame("parseLiteral", "entry", BoolValue(TRUE),
                                    T(<<"t", "r", "u", "e">>))>>)
           ELSE IF CompareAt(p, T(<<"f", "a", "l", "s", "e">>))
               THEN Goto(p, <<Frame("parseLiteral", "entry", BoolValue(FALSE),
                                    T(<<"f", "a", "l", "s", "e">>))>>)
           ELSE IF CompareAt(p, T(<<"n", "u", "l", "l">>))
               THEN Goto(p, <<Frame("parseLiteral", "entry", NullValue,
                                    T(<<"n", "u", "l", "l">>))>>)
           ELSE Raise(p, "InvalidValue")
    /\ UNCHANGED treeVars

parseString ==
    /\ At("parseString", "entry")
    /\ Finish(parseStringAt(position))
    /\ UNCHANGED treeVars

parseNumber ==
    /\ At("parseNumber", "entry")
    /\ Finish(parseNumberAt(position))
    /\ UNCHANGED treeVars

parseLiteral ==
    /\ At("parseLiteral", "entry")
    /\ Finish(parseLiteralAt(position, Top.key, Top.acc))
    /\ UNCHANGED treeVars

\* the consume() of the closing character after the loop, and the return
CloseAndReturn(pos, value) ==
    LET c == consumeAt(pos) IN
    IF ~c.ok THEN Raise(c.pos, c.err) ELSE Return(c.pos, value)

\* parseObject(), up to the loop
parseObject ==
    /\ At("parseObject", "entry")
    /\ LET c == consumeAt(position) IN
       IF ~c.ok THEN Raise(c.pos, c.err)
       ELSE Goto(SkipWhitespaceFrom(c.pos),
                 <<Frame("parseObject", "loop", TypedValue("OBJECT"), <<>>)>>)
    /\ UNCHANGED treeVars

\* the loop test of parseObject and, in the loop, up to the call of parseString
parseObjectLoop ==
    /\ At("parseObject", "loop")
    /\ IF peek # Code["}"]
       THEN Goto(SkipWhitespaceFrom(position),
                 <<Call("parseString"), [Top EXCEPT !.pc = "key"]>>)
       ELSE CloseAndReturn(position, Top.acc)
    /\ UNCHANGED treeVars

\* parseObject(), from the key to the call of parseValue
parseObjectKey ==
    /\ At("parseObject", "key")
    /\ LET c == consumeAt(SkipWhitespaceFrom(position)) IN
       IF ~c.ok THEN Raise(c.pos, c.err)
       ELSE IF c.val # Code[":"] THEN Raise(c.pos, "ExpectedColon")
       ELSE Goto(SkipWhitespaceFrom(c.pos),
                 <<Call("parseValue"),
                   [Top EXCEPT !.pc = "value", !.key = ret.stringValue]>>)
    /\ UNCHANGED treeVars

\* parseObject(), from the member's value to the end of the loop body
parseObjectMember ==
    /\ At("parseObject", "value")
    /\ LET object == [Top.acc EXCEPT !.objectValue = MapPut(@, Top.key, ret)]
           p == SkipWhitespaceFrom(position)
       IN  IF PeekAt(p) = Code[","]
               THEN LET c == consumeAt(p) IN
                    IF ~c.ok THEN Raise(c.pos, c.err)
                    ELSE Goto(c.pos, <<[Top EXCEPT !.pc = "loop", !.acc = object]>>)
           ELSE IF PeekAt(p) = Code["}"] THEN CloseAndReturn(p, object)
           ELSE Raise(p, "ExpectedCommaOrBrace")
    /\ UNCHANGED treeVars

\* parseArray(), up to the loop
parseArray ==
    /\ At("parseArray", "entry")
    /\ LET c == consumeAt(position) IN
       IF ~c.ok THEN Raise(c.pos, c.err)
       ELSE Goto(SkipWhitespaceFrom(c.pos),
                 <<Frame("parseArray", "loop", TypedValue("ARRAY"), <<>>)>>)
    /\ UNCHANGED treeVars

\* the loop test of parseArray and, in the loop, up to the call of parseValue
parseArrayLoop ==
    /\ At("parseArray", "loop")
    /\ IF peek # Code["]"]
       THEN Goto(SkipWhitespaceFrom(position),
                 <<Call("parseValue"), [Top EXCEPT !.pc = "value"]>>)
       ELSE CloseAndReturn(position, Top.acc)
    /\ UNCHANGED treeVars

\* parseArray(), from the element's value to the end of the loop body
parseArrayElement ==
    /\ At("parseArray", "value")
    /\ LET array == [Top.acc EXCEPT !.arrayValue = Append(@, ret)]
           p == SkipWhitespaceFrom(position)
       IN  IF PeekAt(p) = Code[","]
               THEN LET c == consumeAt(p) IN
                    IF ~c.ok THEN Raise(c.pos, c.err)
                    ELSE Goto(c.pos, <<[Top EXCEPT !.pc = "loop", !.acc = array]>>)
           ELSE IF PeekAt(p) = Code["]"] THEN CloseAndReturn(p, array)
           ELSE Raise(p, "ExpectedCommaOrBracket")
    /\ UNCHANGED treeVars

ParserNext ==
    \/ parse
    \/ parseReturn
    \/ parseValue
    \/ parseString
    \/ parseNumber
    \/ parseLiteral
    \/ parseObject
    \/ parseObjectLoop
    \/ parseObjectKey
    \/ parseObjectMember
    \/ parseArray
    \/ parseArrayLoop
    \/ parseArrayElement

----------------------------------------------------------------------------
(* The input texts the parser is run on.                                   *)

SeqsUpTo(S, n) == UNION {[1..k -> S] : k \in 0..n}

\* every text of at most MaxLen characters over one of three small alphabets
StructureChars == {Code[c] : c \in {"{", "}", "[", "]", "\"", ":", ",", " ", "1"}}
NumberChars == {Code[c] : c \in {"1", "-", "+", ".", "e", "VT"}}
StringChars == {Code[c] : c \in {"\"", "\\", "n", "u", "a"}}
RawInputs ==
    SeqsUpTo(StructureChars, MaxLen) \cup SeqsUpTo(NumberChars, MaxLen)
        \cup SeqsUpTo(StringChars, MaxLen)

(* Well-formed documents, written from syntax trees. A tree is a scalar or *)
(* a container with its items in source order (an object's items carry     *)
(* their keys, which may repeat).                                          *)

TNull == [k |-> "null", n |-> 0, s |-> <<>>, b |-> FALSE, items |-> <<>>]
TNum(n) == [TNull EXCEPT !.k = "number", !.n = n]
TStr(s) == [TNull EXCEPT !.k = "string", !.s = s]
TBool(b) == [TNull EXCEPT !.k = "boolean", !.b = b]
TArr(items) == [TNull EXCEPT !.k = "array", !.items = items]
TObj(items) == [TNull EXCEPT !.k = "object", !.items = items]
Item(key, val) == [key |-> key, val |-> val]

DocKeys == {T(<<"a">>), T(<<"}", " ">>)}
Scalars ==
    {TNull, TBool(TRUE), TBool(FALSE), TNum(0), TNum(12),
     TStr(<<>>), TStr(T(<<"a", ",", "]">>))}
Arrays(S) == {TArr(items) : items \in SeqsUpTo({Item(<<>>, v) : v \in S}, MaxElems)}
Objects(S) ==
    {TObj(items) : items \in SeqsUpTo({Item(key, v) : key \in DocKeys, v \in S}, MaxElems)}
Inner ==
    {TNum(12), TArr(<<>>), TObj(<<>>),
     TArr(<<Item(<<>>, TBool(TRUE)), Item(<<>>, TStr(T(<<"a", ",", "]">>)))>>),
     TObj(<<Item(T(<<"a">>), TNull), Item(T(<<"a">>), TNum(0))>>)}
Containers == Arrays(Scalars) \cup Objects(Scalars) \cup Arrays(Inner) \cup Objects(Inner)
Docs == Scalars \cup Containers

\* the whitespace written at each place between tokens; extra is written
\* after the last item of a container that has items
Layout(lead, open, colonL, colonR, commaL, commaR, close, extra) ==
    [lead |-> lead, open |-> open, colonL |-> colonL, colonR |-> colonR,
     commaL |-> commaL, commaR |-> commaR, close |-> close, extra |-> extra]
Compact == Layout(<<>>, <<>>, <<>>, <<>>, <<>>, <<>>, <<>>, <<>>)
Layouts ==
    {Compact,
     [Compact EXCEPT !.colonR = T(<<" ">>), !.commaR = T(<<" ">>)],
     Layout(T(<<" ">>), T(<<" ">>), T(<<" ">>), T(<<" ">>), T(<<" ">>), T(<<" ">>),
            T(<<" ">>), <<>>),
     Layout(T(<<"LF">>), T(<<"LF", "TAB">>), <<>>, T(<<" ">>), T(<<"CR">>),
            T(<<"LF", " ", " ">>), T(<<"TAB">>), <<>>)}

\* the decimal digits of a natural number
RECURSIVE Decimal(_)
Decimal(n) == IF n < 10 THEN <<48 + n>> ELSE Append(Decimal(n \div 10), 48 + (n % 10))

Quoted(s) == T(<<"\"">>) \o s \o T(<<"\"">>)

RECURSIVE Write(_, _)
RECURSIVE WriteItems(_, _, _, _)
WriteItems(items, i, isObject, w) ==
    IF i > Len(items) THEN <<>>
    ELSE (IF isObject THEN Quoted(items[i].key) \o w.colonL \o T(<<":">>) \o w.colonR
          ELSE <<>>)
         \o Write(items[i].val, w)
         \o (IF i < Len(items) THEN w.commaL \o T(<<",">>) \o w.commaR ELSE w.extra)
         \o WriteItems(items, i + 1, isObject, w)
Write(t, w) ==
    CASE t.k = "null" -> T(<<"n", "u", "l", "l">>)
      [] t.k = "boolean" ->
            IF t.b THEN T(<<"t", "r", "u", "e">>) ELSE T(<<"f", "a", "l", "s", "e">>)
      [] t.k = "number" -> Decimal(t.n)
      [] t.k = "string" -> Quoted(t.s)
      [] t.k = "array" ->
            T(<<"[">>) \o w.open \o WriteItems(t.items, 1, FALSE, w) \o w.close \o T(<<"]">>)
      [] t.k = "object" ->
            T(<<"{">>) \o w.open \o WriteItems(t.items, 1, TRUE, w) \o w.close \o T(<<"}">>)

\* the whole document: leading whitespace, the value, trailing whitespace
Document(t, w) == w.lead \o Write(t, w) \o w.lead

\* the value a tree denotes: a repeated key keeps its last value
RECURSIVE Denotes(_)
Denotes(t) ==
    CASE t.k = "null" -> NullValue
      [] t.k = "boolean" -> BoolValue(t.b)
      [] t.k = "number" -> NumberValue(DoubleOf(t.n))
      [] t.k = "string" -> StringValue(t.s)
      [] t.k = "array" ->
            [TypedValue("ARRAY") EXCEPT
                !.arrayValue = [i \in 1..Len(t.items) |-> Denotes(t.items[i].val)]]
      [] t.k = "object" ->
            [TypedValue("OBJECT") EXCEPT
                !.objectValue =
                    [key \in {t.items[i].key : i \in 1..Len(t.items)} |->
                        LET last == CHOOSE i \in 1..Len(t.items) :
                                        /\ t.items[i].key = key
                                        /\ \A j \in (i + 1)..Len(t.items) :
                                               t.items[j].key # key
                        IN  Denotes(t.items[last].val)]]

\* documents with a comma after the last item of every container that has items
TrailingCommaTrees == (Arrays(Inner) \cup Objects(Inner)) \ {TArr(<<>>), TObj(<<>>)}
TrailingCommaLayouts ==
    {[Compact EXCEPT !.extra = T(<<",">>)],
     [Compact EXCEPT !.extra = T(<<",", " ">>)],
     [Compact EXCEPT !.commaR = T(<<" ">>), !.close = T(<<"LF">>), !.extra = T(<<",">>)]}

(* String literals with \uXXXX escapes: a literal is a sequence of tokens, *)
(* each with its text in the literal and the bytes it stands for (the      *)
(* UTF-8 encoding of the escaped code point, written out by hand).         *)

Token(text, bytes) == [text |-> text, bytes |-> bytes]
EscapeTokens ==
    {Token(T(<<"\\", "u", "0", "0", "4", "1">>), <<65>>),
     Token(T(<<"\\", "u", "0", "0", "e", "9">>), <<195, 169>>),
     Token(T(<<"\\", "u", "0", "0", "E", "9">>), <<195, 169>>),
     Token(T(<<"\\", "u", "2", "0", "A", "C">>), <<226, 130, 172>>)}
PlainTokens ==
    {Token(T(<<"a">>), T(<<"a">>)), Token(T(<<"\\", "n">>), T(<<"LF">>))}
RECURSIVE Texts(_)
Texts(tokens) == IF tokens = <<>> THEN <<>> ELSE Head(tokens).text \o Texts(Tail(tokens))
RECURSIVE Bytes(_)
Bytes(tokens) == IF tokens = <<>> THEN <<>> ELSE Head(tokens).bytes \o Bytes(Tail(tokens))
UnicodeLiterals ==
    {tokens \in SeqsUpTo(EscapeTokens \cup PlainTokens, MaxTokens) :
        \E i \in 1..Len(tokens) : tokens[i] \in EscapeTokens}

(* Number tokens with an exponent part: a mantissa and an exponent, each   *)
(* with its text and its value (the mantissa's as digits * 10^scale).      *)

Mantissas ==
    {[text |-> T(<<"1">>), sgn |-> 1, digits |-> 1, scale |-> 0],
     [text |-> T(<<"-", "2">>), sgn |-> -1, digits |-> 2, scale |-> 0],
     [text |-> T(<<"1", ".", "5">>), sgn |-> 1, digits |-> 15, scale |-> -1],
     [text |-> T(<<"0", ".", "2", "5">>), sgn |-> 1, digits |-> 25, scale |-> -2]}
Exponents ==
    {[text |-> T(<<"e", "3">>), value |-> 3],
     [text |-> T(<<"E", "2">>), value |-> 2],
     [text |-> T(<<"e", "+", "1">>), value |-> 1],
     [text |-> T(<<"e", "-", "2">>), value |-> -2]}
\* where the token stands: the document itself, an object member, an array element
Embeddings ==
    {[before |-> <<>>, after |-> <<>>],
     [before |-> T(<<"{", "\"", "x", "\"", ":">>), after |-> T(<<"}">>)],
     [before |-> T(<<"[">>), after |-> T(<<"]">>)],
     [before |-> T(<<"[", "1", ",", " ">>), after |-> T(<<" ", ",", "2", "]">>)]}

\* object texts whose key position (after '{' or after ',', whitespace
\* skipped) holds a character that is neither '"' nor '}'
KeyPositions ==
    {T(<<"{">>), T(<<"{", " ">>),
     T(<<"{", "\"", "a", "\"", ":", "1", ",">>),
     T(<<"{", "\"", "a", "\"", ":", "1", ",", " ">>)}
NotQuotes == {Code[c] : c \in {"x", "1", ":", ","}}
KeyRests ==
    {T(<<"b", "\"", ":", "1", "}">>), T(<<"\"", "b", "\"", ":", "1", "}">>),
     T(<<"\"", ":", "1", "}">>), T(<<":", "1", "}">>), T(<<"}">>)}
UnquotedKeyTexts ==
    {before \o <<c>> \o rest : before \in KeyPositions, c \in NotQuotes, rest \in KeyRests}

----------------------------------------------------------------------------
(* areEqual *)

RECURSIVE areEqual(_, _)
areEqual(a, b) ==
    IF a.type # b.type THEN FALSE
    ELSE CASE a.type = "OBJECT" ->
                IF Cardinality(DOMAIN a.objectValue) # Cardinality(DOMAIN b.objectValue)
                THEN FALSE
                ELSE \A key \in DOMAIN a.objectValue :
                        /\ key \in DOMAIN b.objectValue
                        /\ areEqual(a.objectValue[key], b.objectValue[key])
           [] a.type = "ARRAY" ->
                IF Len(a.arrayValue) # Len(b.arrayValue) THEN FALSE
                ELSE \A i \in 1..Len(a.arrayValue) :
                        areEqual(a.arrayValue[i], b.arrayValue[i])
           [] a.type = "STRING" -> a.stringValue = b.stringValue
           [] a.type = "NUMBER" -> DoubleEq(a.numberValue, b.numberValue)
           [] a.type = "BOOLEAN" -> a.boolValue = b.boolValue
           [] a.type = "NULLVALUE" -> TRUE

----------------------------------------------------------------------------
(* serializeJSON. An unordered_map is iterated in an order the program     *)
(* does not control, so an object has one text per order of its keys:      *)
(* serializeJSON(value) is the set of texts the call can return.           *)

\* n written with at least width digits (zero-padded on the left)
RECURSIVE Padded(_, _)
Padded(n, width) ==
    IF width <= 1 /\ n < 10 THEN <<48 + n>>
    ELSE Append(Padded(n \div 10, width - 1), 48 + (n % 10))

\* std::to_string(double): printf's "%f", six digits after the point. A
\* value with more than six decimals is rounded to the nearest (a tie, which
\* in the source depends on the binary expansion, to even).
to_string(d) ==
    LET micro == IF d.x >= -6 THEN d.m * Pow10(d.x + 6)
                 ELSE LET unit == Pow10(0 - d.x - 6)
                          q == d.m \div unit
                          r == d.m % unit
                      IN  IF 2 * r > unit \/ (2 * r = unit /\ q % 2 = 1) THEN q + 1 ELSE q
    IN  (IF d.sgn < 0 THEN T(<<"-">>) ELSE <<>>)
            \o Decimal(micro \div 1000000) \o T(<<".">>) \o Padded(micro % 1000000, 6)

\* result.pop_back()
PopBack(text) == SubSeq(text, 1, Len(text) - 1)

RECURSIVE serializeJSON(_)
RECURSIVE SerializeMembers(_, _)
RECURSIVE SerializeElements(_, _)
\* the loop over objectValue, the entries not yet visited being keys
SerializeMembers(object, keys) ==
    IF keys = {} THEN {<<>>}
    ELSE UNION {
            {Quoted(key) \o T(<<":">>) \o text \o T(<<",">>) \o rest :
                text \in serializeJSON(object[key]),
                rest \in SerializeMembers(object, keys \ {key})} :
            key \in keys}
\* the loop over arrayValue, from element i on
SerializeElements(array, i) ==
    IF i > Len(array) THEN {<<>>}
    ELSE {text \o T(<<",">>) \o rest :
            text \in serializeJSON(array[i]), rest \in SerializeElements(array, i + 1)}
serializeJSON(value) ==
    CASE value.type = "OBJECT" ->
            {T(<<"{">>)
                \o (IF DOMAIN value.objectValue # {} THEN PopBack(members) ELSE members)
                \o T(<<"}">>) :
                members \in SerializeMembers(value.objectValue, DOMAIN value.objectValue)}
      [] value.type = "ARRAY" ->
            {T(<<"[">>)
                \o (IF value.arrayValue # <<>> THEN PopBack(elements) ELSE elements)
                \o T(<<"]">>) :
                elements \in SerializeElements(value.arrayValue, 1)}
      [] value.type = "STRING" -> {Quoted(value.stringValue)}
      [] value.type = "NUMBER" -> {to_string(value.numberValue)}
      [] value.type = "BOOLEAN" ->
            {IF value.boolValue THEN T(<<"t", "r", "u", "e">>)
             ELSE T(<<"f", "a", "l", "s", "e">>)}
      [] value.type = "NULLVALUE" -> {T(<<"n", "u", "l", "l">>)}

----------------------------------------------------------------------------
(* The parser run on one input text. *)

NoTree ==
    /\ root = NullValue
    /\ path = <<>>
    /\ qres = [current |-> NullValue, tokens |-> <<>>]
    /\ flattened = NoMap
    /\ pending = {}
    /\ result = NullValue
    /\ tpc = "off"

\* JSONParser(json): the constructor
Constructed(text) ==
    /\ input = text
    /\ position = 0
    /\ stack = <<>>
    /\ ret = NullValue
    /\ status = "ready"
    /\ err = "none"

Init ==
    /\ NoTree
    /\ \/ /\ kind = "raw"
          /\ expect = NullValue
          /\ \E text \in RawInputs : Constructed(text)
       \/ /\ kind = "doc"
          /\ \E t \in Docs, w \in Layouts :
                /\ Constructed(Document(t, w))
                /\ expect = Denotes(t)
       \/ /\ kind = "trailingComma"
          /\ expect = NullValue
          /\ \E t \in TrailingCommaTrees, w \in TrailingCommaLayouts :
                Constructed(Document(t, w))
       \/ /\ kind = "unicode"
          /\ \E tokens \in UnicodeLiterals :
                /\ Constructed(Quoted(Texts(tokens)))
                /\ expect = StringValue(Bytes(tokens))
       \/ /\ kind = "unquotedKey"
          /\ expect = NullValue
          /\ \E text \in UnquotedKeyTexts : Constructed(text)
       \/ /\ kind = "exponent"
          /\ \E m \in Mantissas, e \in Exponents, at \in Embeddings :
                /\ Constructed(at.before \o m.text \o e.text \o at.after)
                /\ expect = NumberValue(Normalize(m.sgn, m.digits, m.scale + e.value))

Next == ParserNext

Spec == Init /\ [][Next]_vars

----------------------------------------------------------------------------
(* The round trip: a value is serialized and the text is parsed.           *)

Ints(S) == {NumberValue(DoubleOf(n)) : n \in S}
Strings(S) == {StringValue(x) : x \in S}
ArraysOf(S) ==
    {[TypedValue("ARRAY") EXCEPT !.arrayValue = elements] : elements \in SeqsUpTo(S, MaxElems)}
ObjectsOf(K, S) ==
    {[TypedValue("OBJECT") EXCEPT !.objectValue = members] :
        members \in UNION {[keys -> S] : keys \in {k \in SUBSET K : Cardinality(k) <= MaxElems}}}

PlainStrings == {<<>>, T(<<"a", "b">>), T(<<"LF", "TAB">>), T(<<":", ",", " ", "/">>)}
QuotingStrings == {T(<<"\"">>), T(<<"\\">>), T(<<"a", "\"", "b">>), T(<<"\\", "n">>)}
RoundTripScalars ==
    {NullValue, BoolValue(TRUE), BoolValue(FALSE)}
        \cup Ints({0, 7, 0 - 7, 23, 1200})
        \cup Strings(PlainStrings \cup QuotingStrings)
RoundTripInner ==
    {NumberValue(DoubleOf(23)), StringValue(T(<<"a", "b">>)), BoolValue(TRUE)}
RoundTripKeys == {T(<<"k">>), T(<<"a", "b">>), T(<<"q", "\"">>)}
RoundTripFlat == ArraysOf(RoundTripInner) \cup ObjectsOf(RoundTripKeys, RoundTripInner)
RoundTripValues ==
    RoundTripScalars \cup RoundTripFlat
        \cup ArraysOf({NullValue} \cup {v \in RoundTripFlat : v.type = "ARRAY"})
        \cup ObjectsOf(RoundTripKeys, {v \in RoundTripFlat :
                                          /\ v.type = "OBJECT"
                                          /\ Cardinality(DOMAIN v.objectValue) <= 1})

InitRoundTrip ==
    /\ NoTree
    /\ kind = "roundTrip"
    /\ expect \in RoundTripValues
    /\ input = <<>>
    /\ position = 0
    /\ stack = <<>>
    /\ ret = NullValue
    /\ status = "unserialized"
    /\ err = "none"

\* std::string serialized = serializeJSON(value); JSONParser parser(serialized)
serialize ==
    /\ status = "unserialized"
    /\ \E text \in serializeJSON(expect) :
          /\ input' = text
          /\ position' = 0
          /\ stack' = <<>>
          /\ ret' = NullValue
          /\ status' = "ready"
          /\ err' = "none"
    /\ UNCHANGED <<kind, expect>>
    /\ UNCHANGED treeVars

NextRoundTrip == serialize \/ ParserNext

SpecRoundTrip == InitRoundTrip /\ [][NextRoundTrip]_vars

----------------------------------------------------------------------------
(* The tree operations: queryJSON, flattenJSON and unflattenJSON.          *)

\* while (std::getline(ss, token, '.')): the tokens the loop sees. A token
\* ends at a '.' or at the end of the text; at the end of the text with no
\* character read, getline fails and the loop ends.
RECURSIVE GetlineFrom(_, _, _)
GetlineFrom(text, i, token) ==
    IF i > Len(text) THEN (IF token = <<>> THEN <<>> ELSE <<token>>)
    ELSE IF text[i] = Code["."] THEN <<token>> \o GetlineFrom(text, i + 1, <<>>)
    ELSE GetlineFrom(text, i + 1, Append(token, text[i]))

Getline(text) == GetlineFrom(text, 1, <<>>)

\* std::stoi(token) for a token that starts with a digit: the number its
\* leading digits write, std::out_of_range when it does not fit an int
stoi(token) ==
    LET n == DigitsVal(token, 1, DigitsEnd(token, 1))
    IN  IF n > 2147483647 THEN [ok |-> FALSE, val |-> 0] ELSE [ok |-> TRUE, val |-> n]

\* a value that lost what its containers held
Emptied(v) == [v EXCEPT !.objectValue = NoMap, !.arrayValue = <<>>]

\* current = element, element being held by one of current's own containers:
\* the assignment releases the element while it is still being copied from
\* (a use after free). What comes out is the element, a copy of it whose
\* containers were read after their release, or no value at all.
Aliased(element) ==
    {[crashed |-> FALSE, current |-> element],
     [crashed |-> FALSE, current |-> Emptied(element)],
     [crashed |-> FALSE,
      current |-> [element EXCEPT !.arrayValue =
                      [i \in DOMAIN @ |-> IF i = 1 THEN @[i] ELSE Emptied(@[i])]]],
     [crashed |-> TRUE, current |-> element]}

\* queryJSON, up to its loop: current = root
queryJSON ==
    /\ tpc = "queryJSON"
    /\ qres' = [current |-> root, tokens |-> Getline(path)]
    /\ tpc' = "queryLoop"
    /\ UNCHANGED <<root, path, flattened, pending, result>>
    /\ UNCHANGED parserVars

\* one turn of queryJSON's loop, on an Object with the token as a key
queryObjectStep ==
    /\ tpc = "queryLoop"
    /\ qres.tokens # <<>>
    /\ LET current == qres.current
           token == Head(qres.tokens)
       IN  /\ current.type = "OBJECT"
           /\ token \in DOMAIN current.objectValue
           /\ \E outcome \in Aliased(current.objectValue[token]) :
                 /\ qres' = [current |-> outcome.current, tokens |-> Tail(qres.tokens)]
                 /\ tpc' = IF outcome.crashed THEN "crashed" ELSE "queryLoop"
    /\ UNCHANGED <<root, path, flattened, pending, result>>
    /\ UNCHANGED parserVars

\* one turn of queryJSON's loop, on an Array with a token whose first
\* character is a digit
queryArrayStep ==
    /\ tpc = "queryLoop"
    /\ qres.tokens # <<>>
    /\ LET current == qres.current
           token == Head(qres.tokens)
           index == stoi(token)
       IN  /\ ~(current.type = "OBJECT" /\ token \in DOMAIN current.objectValue)
           /\ current.type = "ARRAY"
           /\ IsDigit(IF token = <<>> THEN 0 ELSE token[1])
           /\ IF ~index.ok
                THEN /\ tpc' = "StoiOutOfRange"
                     /\ qres' = qres
              ELSE IF index.val >= Len(current.arrayValue)
                THEN /\ tpc' = "IndexOutOfBounds"
                     /\ qres' = qres
              ELSE \E outcome \in
                        IF current.arrayValue[index.val + 1].arrayValue # <<>>
                        THEN Aliased(current.arrayValue[index.val + 1])
                        ELSE {[crashed |-> FALSE,
                               current |-> current.arrayValue[index.val + 1]]} :
                     /\ qres' = [current |-> outcome.current, tokens |-> Tail(qres.tokens)]
                     /\ tpc' = IF outcome.crashed THEN "crashed" ELSE "queryLoop"
    /\ UNCHANGED <<root, path, flattened, pending, result>>
    /\ UNCHANGED parserVars

\* one turn of queryJSON's loop that takes neither branch
queryInvalidSegment ==
    /\ tpc = "queryLoop"
    /\ qres.tokens # <<>>
    /\ LET current == qres.current
           token == Head(qres.tokens)
       IN  /\ ~(current.type = "OBJECT" /\ token \in DOMAIN current.objectValue)
           /\ ~(current.type = "ARRAY" /\ IsDigit(IF token = <<>> THEN 0 ELSE token[1]))
    /\ tpc' = "InvalidPathSegment"
    /\ UNCHANGED <<root, path, qres, flattened, pending, result>>
    /\ UNCHANGED parserVars

\* return current
queryReturn ==
    /\ tpc = "queryLoop"
    /\ qres.tokens = <<>>
    /\ tpc' = "returned"
    /\ UNCHANGED <<root, path, qres, flattened, pending, result>>
    /\ UNCHANGED parserVars

\* flattenJSON(value, flattened, prefix): the maps the call can leave in
\* flattened, one per order in which the objects on the way are iterated
RECURSIVE flattenJSON(_, _, _)
RECURSIVE FlattenMembers(_, _, _, _)
FlattenMembers(object, keys, into, prefix) ==
    IF keys = {} THEN {into}
    ELSE UNION {
            UNION {FlattenMembers(object, keys \ {key}, next, prefix) :
                      next \in flattenJSON(object[key], into,
                                   IF prefix = <<>> THEN key
                                   ELSE prefix \o T(<<".">>) \o key)} :
            key \in keys}
flattenJSON(value, into, prefix) ==
    IF value.type = "OBJECT"
    THEN FlattenMembers(value.objectValue, DOMAIN value.objectValue, into, prefix)
    ELSE {MapPut(into, prefix, value)}

\* the body of unflattenJSON's outer loop for one entry: the walk down the
\* tokens from current, and *current = val at its end
RECURSIVE Unflatten(_, _, _)
Unflatten(current, tokens, val) ==
    IF tokens = <<>> THEN val
    ELSE LET token == Head(tokens)
             child == IF token \in DOMAIN current.objectValue
                      THEN current.objectValue[token]
                      ELSE TypedValue("OBJECT")
         IN  [current EXCEPT
                 !.type = "OBJECT",
                 !.objectValue = MapPut(@, token, Unflatten(child, Tail(tokens), val))]

\* flattenJSON(root, flattened), then unflattenJSON up to its loop
flatten ==
    /\ tpc = "flattenJSON"
    /\ \E map \in flattenJSON(root, NoMap, <<>>) :
          /\ flattened' = map
          /\ pending' = DOMAIN map
    /\ result' = TypedValue("OBJECT")
    /\ tpc' = "unflattenLoop"
    /\ UNCHANGED <<root, path, qres>>
    /\ UNCHANGED parserVars

\* one turn of unflattenJSON's outer loop, the map handing out its entries
\* in any order
unflattenEntry ==
    /\ tpc = "unflattenLoop"
    /\ \E flatKey \in pending :
          /\ result' = Unflatten(result, Getline(flatKey), flattened[flatKey])
          /\ pending' = pending \ {flatKey}
    /\ UNCHANGED <<root, path, qres, flattened, tpc>>
    /\ UNCHANGED parserVars

\* return result
unflattenReturn ==
    /\ tpc = "unflattenLoop"
    /\ pending = {}
    /\ tpc' = "unflattened"
    /\ UNCHANGED <<root, path, qres, flattened, pending, result>>
    /\ UNCHANGED parserVars

\* the values the tree operations are run on
Leaves ==
    {NumberValue(DoubleOf(1)), StringValue(T(<<"a", "b">>)), NullValue,
     [TypedValue("ARRAY") EXCEPT
         !.arrayValue = <<NumberValue(DoubleOf(10)), NumberValue(DoubleOf(20))>>]}
TreeKeys == {T(<<"a">>), T(<<"b">>), <<>>}
FlatObjects == ObjectsOf(TreeKeys, {NumberValue(DoubleOf(1)), StringValue(T(<<"a", "b">>))})
InnerObjects ==
    {TypedValue("OBJECT")}
        \cup {v \in FlatObjects : Cardinality(DOMAIN v.objectValue) = 1}
        \cup {[TypedValue("OBJECT") EXCEPT !.objectValue = MapPut(NoMap, k, v)] :
                k \in TreeKeys,
                v \in {x \in FlatObjects : DOMAIN x.objectValue = {T(<<"b">>)}}}
FlattenRoots ==
    ObjectsOf(TreeKeys, Leaves) \cup ObjectsOf(TreeKeys, InnerObjects \cup {NullValue})

QueryRoots ==
    Leaves
        \cup ArraysOf({NumberValue(DoubleOf(10)),
                       [TypedValue("ARRAY") EXCEPT
                           !.arrayValue = <<NumberValue(DoubleOf(20))>>]})
        \cup ObjectsOf({T(<<"a">>), T(<<"1">>)},
                       {NumberValue(DoubleOf(1)),
                        [TypedValue("ARRAY") EXCEPT
                            !.arrayValue = <<StringValue(T(<<"a">>)),
                                             StringValue(T(<<"b">>))>>],
                        [TypedValue("OBJECT") EXCEPT
                            !.objectValue = MapPut(NoMap, T(<<"b">>), BoolValue(TRUE))]})
Segments == {T(<<"a">>), T(<<"b">>), <<>>, T(<<"1">>), T(<<"2">>), T(<<"1", "x">>)}
RECURSIVE Join(_)
Join(segments) ==
    IF Len(segments) = 1 THEN Head(segments)
    ELSE Head(segments) \o T(<<".">>) \o Join(Tail(segments))
Paths == {<<>>} \cup {Join(segments) : segments \in SeqsUpTo(Segments, MaxSegs) \ {<<>>}}

InitTree ==
    /\ Constructed(<<>>)
    /\ expect = NullValue
    /\ qres = [current |-> NullValue, tokens |-> <<>>]
    /\ flattened = NoMap
    /\ pending = {}
    /\ result = NullValue
    /\ \/ /\ kind = "query"
          /\ tpc = "queryJSON"
          /\ root \in QueryRoots
          /\ path \in Paths
       \/ /\ kind = "flatten"
          /\ tpc = "flattenJSON"
          /\ root \in FlattenRoots
          /\ path = <<>>

NextTree ==
    \/ queryJSON
    \/ queryObjectStep
    \/ queryArrayStep
    \/ queryInvalidSegment
    \/ queryReturn
    \/ flatten
    \/ unflattenEntry
    \/ unflattenReturn

SpecTree == InitTree /\ [][NextTree]_vars

----------------------------------------------------------------------------
(* Properties of the parser. *)

Finished == status \in {"ok", "failed"}

\* two values are the same tree: same type, same payload, same keys, same order
RECURSIVE SameTree(_, _)
SameTree(a, b) ==
    /\ a.type = b.type
    /\ CASE a.type = "OBJECT" ->
                /\ DOMAIN a.objectValue = DOMAIN b.objectValue
                /\ \A key \in DOMAIN a.objectValue :
                        SameTree(a.objectValue[key], b.objectValue[key])
         [] a.type = "ARRAY" ->
                /\ Len(a.arrayValue) = Len(b.arrayValue)
                /\ \A i \in 1..Len(a.arrayValue) : SameTree(a.arrayValue[i], b.arrayValue[i])
         [] a.type = "STRING" -> a.stringValue = b.stringValue
         [] a.type = "NUMBER" -> a.numberValue = b.numberValue
         [] a.type = "BOOLEAN" -> a.boolValue = b.boolValue
         [] a.type = "NULLVALUE" -> TRUE

CountChar(text, c) == Cardinality({i \in 1..Len(text) : text[i] = c})

\* the parse has a step to take: parse() has not been entered yet, or the
\* innermost call stands at one of the places the steps above resume from
CanStep ==
    \/ status = "ready"
    \/ /\ status = "parsing"
       /\ stack # <<>>
       /\ <<Top.fn, Top.pc>> \in
              {<<"parse", "afterValue">>, <<"parseValue", "entry">>,
               <<"parseString", "entry">>, <<"parseNumber", "entry">>,
               <<"parseLiteral", "entry">>, <<"parseObject", "entry">>,
               <<"parseObject", "loop">>, <<"parseObject", "key">>,
               <<"parseObject", "value">>, <<"parseArray", "entry">>,
               <<"parseArray", "loop">>, <<"parseArray", "value">>}

\* C1: a well-formed document (objects, arrays, escape-free strings,
\* non-negative integers, true/false/null, any whitespace between tokens)
\* never fails to parse, the parse never gets stuck, and the value returned is
\* the tree the text denotes (a repeated key keeping its last value).
C1_WellFormedParses ==
    kind = "doc" =>
        /\ status # "failed"
        /\ ~Finished => CanStep
        /\ status = "ok" => SameTree(ret, expect)

\* C1's case: an object written with a repeated key and with whitespace has
\* been parsed to the end
C1_Witness ==
    /\ kind = "doc"
    /\ status = "ok"
    /\ ret.type = "OBJECT"
    /\ CountChar(input, Code[":"]) = 2
    /\ Cardinality(DOMAIN ret.objectValue) = 1
    /\ IsSpace(input[1])

\* a character is left over after the value parseValue returned to parse()
\* and the whitespace (as skipWhitespace skips it) that follows it
LeftOver == SkipWhitespaceFrom(position) # Size

\* C2: parse returns a value only with the cursor at end-of-input, and only
\* from the state where the one value has been parsed and nothing but
\* whitespace follows it; when a non-whitespace character is left over after
\* that value, parse fails with TrailingData and returns no value.
\* (Whitespace is what skipWhitespace skips: std::isspace, which takes the
\* vertical tab and the form feed besides the spec's four characters.)
C2_SingleDocumentFullyConsumed ==
    /\ [](status = "ok" => position = Size /\ stack = <<>>)
    /\ [][status' = "ok" /\ status # "ok" =>
            At("parse", "afterValue") /\ ~LeftOver /\ ret' = ret]_vars
    /\ [][At("parse", "afterValue") /\ LeftOver =>
            status' = "failed" /\ err' = "TrailingData"]_vars

\* C2's case: a value was parsed, a character was left over, parse failed
C2_Witness ==
    /\ status = "failed"
    /\ err = "TrailingData"
    /\ position < Size
    /\ ret.type = "ARRAY"

\* C3 as claimed: a text with a comma after the last member of an object or
\* after the last element of an array (whitespace or not before the closing
\* character) is never parsed to a value.
C3_TrailingCommaRejected == kind = "trailingComma" => status # "ok"

\* C5 as claimed: a string literal with \uXXXX escapes of non-surrogate code
\* units parses, and the decoded string holds the UTF-8 bytes of each code
\* point at the place of its escape, with no backslash or 'u' of an escape
\* left in it.
C5_UnicodeEscapeDecoded ==
    kind = "unicode" =>
        /\ status # "failed"
        /\ status = "ok" => ret.type = "STRING" /\ ret.stringValue = expect.stringValue

\* C6 as claimed: a number token with an exponent part, as the document, an
\* object member or an array element, parses, and the Number is the token's
\* value.
C6_ExponentSupported ==
    kind = "exponent" =>
        /\ status # "failed"
        /\ status = "ok" =>
              LET number == IF ret.type = "OBJECT" THEN ret.objectValue[T(<<"x">>)]
                            ELSE IF ret.type = "ARRAY"
                                THEN ret.arrayValue[Len(ret.arrayValue) \div 2 + 1]
                            ELSE ret
              IN  number.type = "NUMBER" /\ DoubleEq(number.numberValue, expect.numberValue)

\* the maximal run of digits, '.', '-' and '+' that starts at the cursor
NumberRun ==
    LET end == CHOOSE e \in position..Size :
                   /\ \A i \in (position + 1)..e : IsNumberChar(input[i])
                   /\ e < Size => ~IsNumberChar(input[e + 1])
    IN  SubSeq(input, position + 1, end)

\* a number as a whole: [-] digits [. digits]
ValidNumber(s) ==
    \E a \in 0..1, b \in 1..Len(s) :
        /\ a = 1 <=> (Len(s) > 0 /\ s[1] = Code["-"])
        /\ b > a
        /\ \A i \in (a + 1)..b : IsDigit(s[i])
        /\ \/ b = Len(s)
           \/ /\ b + 1 < Len(s)
              /\ s[b + 1] = Code["."]
              /\ \A i \in (b + 2)..Len(s) : IsDigit(s[i])

\* C7 as claimed: when the run parseNumber scans is not a valid number as a
\* whole, the parse fails there; no Number is returned for it.
C7_InvalidNumberRejected ==
    [][At("parseNumber", "entry") /\ ~ValidNumber(NumberRun) => status' = "failed"]_vars

\* C10: while a text is parsed, and after, the text stays as it is, the cursor
\* stays within 0..length(input), and no step moves the cursor back.
C10_CursorMonotone ==
    /\ [](position \in 0..Size)
    /\ [][input' = input /\ position' >= position]_vars

\* C10's case: a parse in progress has moved the cursor to the end of the text
C10_Witness ==
    /\ status = "parsing"
    /\ position = Size
    /\ Size >= 3
    /\ Len(stack) >= 2

----------------------------------------------------------------------------
(* Properties of the round trip. *)

\* C4 as claimed: for a value built from Null, Boolean, integral Number,
\* String (also one holding '"', '\' or control characters), Array and
\* Object, parsing the serialized text succeeds and the value parsed is
\* areEqual to the value serialized.
C4_RoundTrip ==
    kind = "roundTrip" =>
        /\ status # "failed"
        /\ status = "ok" => areEqual(ret, expect)

----------------------------------------------------------------------------
(* Properties of the tree operations. *)

\* C8 as claimed: for an Object whose keys hold no '.', at any depth, with
\* or without an empty nested object and with or without the empty string as
\* a key, the value unflattenJSON returns for the map flattenJSON filled is
\* areEqual to the Object.
C8_UnflattenInvertsFlatten ==
    (kind = "flatten" /\ tpc = "unflattened") => areEqual(result, root)

\* the segments of a path: the pieces between its '.' characters
RECURSIVE SplitFrom(_, _, _)
SplitFrom(text, i, segment) ==
    IF i > Len(text) THEN <<segment>>
    ELSE IF text[i] = Code["."] THEN <<segment>> \o SplitFrom(text, i + 1, <<>>)
    ELSE SplitFrom(text, i + 1, Append(segment, text[i]))

\* the walk C9 describes: a key on an Object, an all-digit index on an Array
RECURSIVE Get(_, _)
Get(node, segments) ==
    IF segments = <<>> THEN [ok |-> TRUE, val |-> node]
    ELSE LET segment == Head(segments)
         IN  IF node.type = "OBJECT"
             THEN IF segment \in DOMAIN node.objectValue
                  THEN Get(node.objectValue[segment], Tail(segments))
                  ELSE [ok |-> FALSE, val |-> NullValue]
             ELSE IF /\ node.type = "ARRAY"
                     /\ segment # <<>>
                     /\ \A i \in 1..Len(segment) : IsDigit(segment[i])
                     /\ DigitsVal(segment, 1, Len(segment) + 1) < Len(node.arrayValue)
                  THEN Get(node.arrayValue[DigitsVal(segment, 1, Len(segment) + 1) + 1],
                           Tail(segments))
                  ELSE [ok |-> FALSE, val |-> NullValue]

\* C9 as claimed: queryJSON on a path of one or more segments ends by
\* returning or by throwing, never otherwise; it returns exactly when the walk
\* over the segments (a key on an Object, an all-digit index within the
\* length on an Array) reaches a value, and then returns that value; it
\* throws when the walk fails; root stays as it was.
C9_QueryWalksSegments ==
    (kind = "query" /\ path # <<>>) =>
        LET claimed == Get(root, SplitFrom(path, 1, <<>>))
        IN  /\ tpc # "crashed"
            /\ tpc = "returned" => claimed.ok /\ SameTree(qres.current, claimed.val)
            /\ tpc \in {"IndexOutOfBounds", "InvalidPathSegment", "StoiOutOfRange"} =>
                  ~claimed.ok

----------------------------------------------------------------------------
(* Properties of object keys. *)

\* C11 as claimed: an object text whose first non-whitespace character at a
\* key position (after '{' or after ',') is neither '"' nor '}' is never
\* parsed to a value: parseObject takes no other character for the opening
\* quote of a key.
C11_KeyStartsWithQuote == kind = "unquotedKey" => status # "ok"

====
